---- MODULE Spec2Model ----
(***************************************************************************)
(* A model of fabio's request dispatcher (proxy.ServeHTTP), of the consul  *)
(* service watcher (watchServices, servicesConfig, serviceConfig) and of   *)
(* the -cfg argument parser exercised by TestParseCfg.                     *)
(*                                                                         *)
(* Text is modelled as a sequence of one-character strings, so that        *)
(* formatting, prefix tests and lexicographic comparison are computed      *)
(* character by character.                                                 *)
(***************************************************************************)
EXTENDS Integers, Sequences, FiniteSets, TLC

VARIABLES
    shuttingDown,   \* the process-wide shutdown gate read by ShuttingDown()
    table,          \* the current route table read by target(r)
    req,            \* per request: the position and locals of its ServeHTTP call
    requests,       \* p.requests: how often the global timer was updated
    timers,         \* per target: how often t.Timer was updated
    w,              \* watchServices: its position, lastIndex, all_checks and i
    doc,            \* the document servicesConfig returned, being sent
    passingSets,    \* the map m servicesConfig built for that document
    catalog,        \* what the catalog answered while it was built
    nSent,          \* the number of documents sent on the config channel
    lastWait,       \* q.WaitIndex of the last local health read
    fails,          \* the number of local reads that failed in a row
    failWait,       \* q.WaitIndex of the first of these failed reads
    goos,           \* runtime.GOOS of the running build
    hist,           \* the reads of this iteration, and the successful local reads
    cfgIn,          \* the arguments and the index parseCfg is called with
    cfgOut,         \* the path and the error parseCfg returned
    cfgPc           \* whether parseCfg was called

proxyVars == <<shuttingDown, table, req, requests, timers>>

watchVars == <<w, doc, passingSets, catalog, nSent, lastWait, fails, failWait,
              goos, hist>>

cfgVars == <<cfgIn, cfgOut, cfgPc>>

vars == <<shuttingDown, table, req, requests, timers,
          w, doc, passingSets, catalog, nSent, lastWait, fails, failWait,
          goos, hist,
          cfgIn, cfgOut, cfgPc>>

(***************************************************************************)
(* Bounds.                                                                 *)
(***************************************************************************)
NumReq == 2
MaxIndex == 2
MaxSent == 2
MaxFails == 2
MaxArgs == 2

(***************************************************************************)
(* Text helpers.                                                           *)
(***************************************************************************)
IsPrefix(p, s) ==
    /\ Len(p) <= Len(s)
    /\ \A i \in 1..Len(p) : p[i] = s[i]

(***************************************************************************)
(* Text: a string is a sequence of one-character strings.  Ascii lists the *)
(* characters that occur, in the order of their byte values, which is the  *)
(* order Go compares strings by.                                           *)
(***************************************************************************)
Ascii ==
    << " ", "\"", "$", "'", ",", "-", ".", "/",
       "0", "1", "2", "3", "4", "5", "6", "7", "8", "9", ":", "=",
       "A", "B", "C", "D", "E", "F", "G", "H", "I", "J", "K", "L", "M",
       "N", "O", "P", "Q", "R", "S", "T", "U", "V", "W", "X", "Y", "Z",
       "\\", "_",
       "a", "b", "c", "d", "e", "f", "g", "h", "i", "j", "k", "l", "m",
       "n", "o", "p", "q", "r", "s", "t", "u", "v", "w", "x", "y", "z" >>

Rank ==
    [c \in {Ascii[i] : i \in 1..Len(Ascii)} |->
        CHOOSE i \in 1..Len(Ascii) : Ascii[i] = c]

Ord(c) == Rank[c]

\* a < b for Go strings from position i on, the characters before being
\* equal: bytewise lexicographic order.
RECURSIVE LessFrom(_, _, _)
LessFrom(a, b, i) ==
    IF i > Len(a) THEN i <= Len(b)
    ELSE IF i > Len(b) THEN FALSE
    ELSE IF a[i] = b[i] THEN LessFrom(a, b, i + 1)
    ELSE Ord(a[i]) < Ord(b[i])

\* a < b for Go strings.
StrLess(a, b) == LessFrom(a, b, 1)

HasPrefix(s, p) == IsPrefix(p, s)

HasSuffix(s, p) ==
    /\ Len(p) <= Len(s)
    /\ SubSeq(s, Len(s) - Len(p) + 1, Len(s)) = p

Contains(s, c) == \E i \in 1..Len(s) : s[i] = c

\* strings.Join(elems, sep)
RECURSIVE Join(_, _)
Join(elems, sep) ==
    IF Len(elems) = 0 THEN <<>>
    ELSE IF Len(elems) = 1 THEN elems[1]
    ELSE elems[1] \o sep \o Join(Tail(elems), sep)

\* strings.TrimSpace(s)
RECURSIVE TrimSpace(_)
TrimSpace(s) ==
    IF Len(s) = 0 THEN s
    ELSE IF s[1] = " " THEN TrimSpace(Tail(s))
    ELSE IF s[Len(s)] = " " THEN TrimSpace(SubSeq(s, 1, Len(s) - 1))
    ELSE s

\* %d of fmt.Sprintf for a number >= 0
RECURSIVE Itoa(_)
Itoa(n) ==
    LET d == <<"0", "1", "2", "3", "4", "5", "6", "7", "8", "9">>[(n % 10) + 1]
    IN  IF n < 10 THEN <<d>> ELSE Append(Itoa(n \div 10), d)

\* %q of fmt.Sprintf: the string in double quotes, quotes and backslashes
\* escaped.
RECURSIVE Escape(_)
Escape(s) ==
    IF Len(s) = 0 THEN <<>>
    ELSE (IF s[1] \in {"\"", "\\"} THEN <<"\\", s[1]>> ELSE <<s[1]>>)
            \o Escape(Tail(s))

Quote(s) == <<"\"">> \o Escape(s) \o <<"\"">>

(***************************************************************************)
(* The dispatcher: proxy.ServeHTTP.                                        *)
(***************************************************************************)
Req == 1..NumReq

Slash == <<"/">>
SlashFoo == <<"/", "f", "o", "o">>
SlashBar == <<"/", "b", "a", "r">>

Websocket == "websocket"
EventStream == "text/event-stream"

NoTarget == [URL |-> "nil"]

\* Route tables the writer may install: ordered (host, path, target) triples.
T0 == <<>>
T1 == << [host |-> "", path |-> SlashFoo, t |-> [URL |-> "http://x:80"]],
         [host |-> "", path |-> Slash, t |-> [URL |-> "http://y:80"]] >>
T2 == << [host |-> "h2", path |-> SlashBar, t |-> [URL |-> "http://z:80"]] >>
Tables == {T0, T1, T2}

Targets == {T1[1].t, T1[2].t, T2[1].t}

\* p.cfg: the configuration the proxy is constructed with (the values of
\* TestFromProperties).
ProxyCfg == [NoRouteStatus |-> 929, FlushInterval |-> 15]

NoHandler == [kind |-> "none"]

Idle == [pc |-> "idle", upgrade |-> "", accept |-> "", remoteOK |-> TRUE,
         host |-> "", path |-> <<>>, gate |-> FALSE, tbl |-> <<>>, idx |-> 0,
         seen |-> {}, lookups |-> 0, t |-> NoTarget, xff |-> <<>>,
         h |-> NoHandler, start |-> "", status |-> 0, body |-> "",
         upd |-> <<>>]

\* http.Error(w, "shutting down", http.StatusServiceUnavailable); return
ShutdownReply(q) ==
    [q EXCEPT !.pc = "done", !.status = 503, !.body = "shutting down"]

\* w.WriteHeader(p.cfg.NoRouteStatus); return
NoRouteReply(q, c) ==
    [q EXCEPT !.pc = "done", !.status = c.NoRouteStatus, !.body = ""]

\* addHeaders(r, p.cfg): the remote address is split into host and port; on
\* failure an error is returned, otherwise X-Forwarded-For gets the client IP.
addHeaders(q) ==
    IF q.remoteOK
    THEN [err |-> FALSE, q |-> [q EXCEPT !.xff = Append(q.xff, "ip")]]
    ELSE [err |-> TRUE, q |-> q]

\* The switch with its first two cases in the other order.
chooseHandlerAcceptFirst(q, c) ==
    CASE q.accept = EventStream ->
            [kind |-> "http", url |-> q.t.URL, flush |-> c.FlushInterval]
      [] q.upgrade = Websocket -> [kind |-> "raw", url |-> q.t.URL]
      [] OTHER -> [kind |-> "http", url |-> q.t.URL, flush |-> 0]

\* The switch of ServeHTTP that picks the handler.
chooseHandler(q, c) ==
    CASE q.upgrade = Websocket -> [kind |-> "raw", url |-> q.t.URL]
      [] q.accept = EventStream ->
            [kind |-> "http", url |-> q.t.URL, flush |-> c.FlushInterval]
      [] OTHER -> [kind |-> "http", url |-> q.t.URL, flush |-> 0]

\* The handler h is picked and start := time.Now() is read.
CallHandler(q, c) ==
    [q EXCEPT !.pc = "handler", !.h = chooseHandler(q, c),
              !.start = "handler call"]

\* target(r): one entry of the table matches the request when its host pattern
\* is empty or equal to the request's host and its path is a prefix of the
\* request's path.
Matches(e, q) ==
    /\ e.host = "" \/ e.host = q.host
    /\ IsPrefix(e.path, q.path)

\* Lookup(request) on one table: the target of the first matching entry.
Lookup(T, q) ==
    IF \E i \in 1..Len(T) : Matches(T[i], q)
    THEN T[CHOOSE i \in 1..Len(T) :
             /\ Matches(T[i], q)
             /\ \A j \in 1..(i - 1) : ~Matches(T[j], q)].t
    ELSE NoTarget

\* A scan that reads the current table anew at every entry.
ScanTableLive(q, cur) == cur

\* target(r) loads the table reference once; the scan reads that table.
ScanTable(q, cur) == q.tbl

\* t := target(r), first step: load the current table.
BeginLookup(q, cur) ==
    [q EXCEPT !.pc = "lookup", !.tbl = cur, !.idx = 1, !.seen = {cur},
              !.lookups = q.lookups + 1]

\* The gate test without its return: the 503 is written and ServeHTTP goes on.
GateCheckNoReturn(q, gate, cur) ==
    BeginLookup(IF gate THEN [q EXCEPT !.status = 503,
                                       !.body = "shutting down"]
                        ELSE q, cur)

\* if ShuttingDown() { ...; return }; t := target(r)
GateCheck(q, gate, cur) ==
    IF gate THEN ShutdownReply(q) ELSE BeginLookup(q, cur)

\* ServeHTTP with the header injection ahead of the nil test on t.
AfterLookupHeadersFirst(q, c) ==
    LET a == addHeaders(q) IN
    IF a.err
    THEN [a.q EXCEPT !.pc = "done", !.status = 500, !.body = "cannot parse"]
    ELSE IF q.t = NoTarget
    THEN NoRouteReply(a.q, c)
    ELSE CallHandler(a.q, c)

\* ServeHTTP with the 500 written and its return left out.
AfterLookupNoReturn(q, c) ==
    IF q.t = NoTarget
    THEN NoRouteReply(q, c)
    ELSE LET a == addHeaders(q) IN
         IF a.err
         THEN CallHandler([a.q EXCEPT !.status = 500,
                                      !.body = "cannot parse"], c)
         ELSE CallHandler(a.q, c)

\* ServeHTTP from the nil test on t to the call of the handler.
AfterLookup(q, c) ==
    IF q.t = NoTarget
    THEN NoRouteReply(q, c)
    ELSE LET a == addHeaders(q) IN
         IF a.err
         THEN [a.q EXCEPT !.pc = "done", !.status = 500,
                          !.body = "cannot parse"]
         ELSE CallHandler(a.q, c)

\* The lookup of target(r) has ended with target t.
EndLookup(q, t) ==
    AfterLookup([q EXCEPT !.t = t, !.tbl = <<>>, !.idx = 0, !.seen = {}],
                ProxyCfg)

\* A request arrives: ServeHTTP reads the shutdown gate and starts the lookup.
ServeHTTP(r) ==
    /\ req[r].pc = "idle"
    /\ \E up \in {"", Websocket, "h2c"},
          ac \in {"", EventStream},
          ok \in BOOLEAN,
          url \in {<<"h1", SlashFoo>>, <<"h2", SlashBar>>} :
          LET q == [Idle EXCEPT !.upgrade = up, !.accept = ac,
                                !.remoteOK = ok, !.host = url[1],
                                !.path = url[2], !.gate = shuttingDown]
          IN  req' = [req EXCEPT ![r] = GateCheck(q, shuttingDown, table)]
    /\ UNCHANGED <<shuttingDown, table, requests, timers>>
    /\ UNCHANGED watchVars
    /\ UNCHANGED cfgVars

\* One step of the scan of target(r); when the scan ends, ServeHTTP runs on
\* to the handler call or to its error reply.
TargetStep(r) ==
    /\ req[r].pc = "lookup"
    /\ LET q == req[r]
           tb == ScanTable(q, table)
       IN  req' = [req EXCEPT ![r] =
                    IF q.idx > Len(tb)
                    THEN EndLookup(q, NoTarget)
                    ELSE IF Matches(tb[q.idx], q)
                    THEN EndLookup(q, tb[q.idx].t)
                    ELSE [q EXCEPT !.idx = q.idx + 1]]
    /\ UNCHANGED <<shuttingDown, table, requests, timers>>
    /\ UNCHANGED watchVars
    /\ UNCHANGED cfgVars

\* One UpdateSince(since) of a timer.
Upd(timer, since) == [timer |-> timer, since |-> since]

\* The handler returns and the timer of the target that the current table
\* has for the request is updated.
HandlerReturnRelookup(r) ==
    /\ req[r].pc = "handler"
    /\ LET q == req[r]
           t == Lookup(table, q)
       IN
       /\ requests' = requests + 1
       /\ timers' = IF t = NoTarget THEN timers
                     ELSE [timers EXCEPT ![t] = timers[t] + 1]
       /\ req' = [req EXCEPT ![r] =
                    [q EXCEPT !.pc = "done", !.status = 200,
                              !.upd = <<Upd("requests", q.start),
                                        Upd(t.URL, q.start)>>]]
    /\ UNCHANGED <<shuttingDown, table>>
    /\ UNCHANGED watchVars
    /\ UNCHANGED cfgVars

\* h.ServeHTTP(w, r) returns; p.requests.UpdateSince(start);
\* t.Timer.UpdateSince(start)
HandlerReturn(r) ==
    /\ req[r].pc = "handler"
    /\ LET q == req[r] IN
       /\ requests' = requests + 1
       /\ timers' = [timers EXCEPT ![q.t] = timers[q.t] + 1]
       /\ req' = [req EXCEPT ![r] =
                    [q EXCEPT !.pc = "done", !.status = 200,
                              !.upd = <<Upd("requests", q.start),
                                        Upd(q.t.URL, q.start)>>]]
    /\ UNCHANGED <<shuttingDown, table>>
    /\ UNCHANGED watchVars
    /\ UNCHANGED cfgVars

\* The route table is replaced by a new one (the writer of the table).
Replace ==
    /\ \E T \in Tables \ {table} :
          /\ table' = T
          /\ req' = [r \in Req |->
                      IF req[r].pc = "lookup"
                      THEN [req[r] EXCEPT !.seen = req[r].seen \cup {T}]
                      ELSE req[r]]
    /\ UNCHANGED <<shuttingDown, requests, timers>>
    /\ UNCHANGED watchVars
    /\ UNCHANGED cfgVars

\* The lifecycle collaborator sets the shutdown gate.
Shutdown ==
    /\ ~shuttingDown
    /\ shuttingDown' = TRUE
    /\ UNCHANGED <<table, req, requests, timers>>
    /\ UNCHANGED watchVars
    /\ UNCHANGED cfgVars

(***************************************************************************)
(* The watcher: watchServices, servicesConfig, serviceConfig.              *)
(***************************************************************************)

\* The arguments watchServices is started with.
tagPrefix == <<"p", "-">>
status == {"passing"}
datacenters == << <<"d", "c", "1">>, <<"d", "c", "2">>, <<"d", "c", "3">> >>
dcIndex == 2    \* counted from 1: the local datacenter is the second of the list

\* A datacenter of the discovery system that watchServices is not given.
OtherDC == <<"d", "c", "4">>

\* The values runtime.GOOS may have.
GOOSes == {"linux", "darwin"}

\* Health records (api.HealthCheck) the discovery system may hold.
Chk(name, id, st) == [ServiceName |-> name, ServiceID |-> id, Status |-> st]

SvcA == <<"a">>
SvcB == <<"b">>

\* Replies of Health().State("any", q), apart from an error.
HealthReplies ==
    { <<>>,
      << Chk(SvcA, "a1", "passing"), Chk(SvcA, "a1", "passing"),
         Chk(SvcA, "a2", "passing"), Chk(SvcA, "a2", "warning") >>,
      << Chk(SvcA, "a1", "passing"), Chk(SvcB, "b1", "passing") >>,
      << Chk(SvcA, "a2", "passing"), Chk(SvcB, "b2", "passing"),
         Chk(<<>>, "", "passing") >>,
      << Chk(SvcA, "a2", "warning") >>,
      << Chk(SvcB, "b1", "critical"), Chk(SvcA, "a1", "passing") >> }

\* Replies of Health().State("any", q) of a remote datacenter, apart from an
\* error.
RemoteReplies ==
    { << Chk(SvcA, "a1", "passing") >>,
      << Chk(SvcA, "a2", "warning"), Chk(SvcB, "b1", "passing") >> }

\* Service instances (api.CatalogService) the catalog may return.
A1 == [ServiceName |-> SvcA, ServiceID |-> "a1", ServiceAddress |-> <<>>,
       Address |-> <<"n", "1">>, ServicePort |-> 80,
       ServiceTags |-> << <<"p", "-", "/">>, <<"p", "-", "/", "f", "o", "o">> >>]
A2 == [ServiceName |-> SvcA, ServiceID |-> "a2",
       ServiceAddress |-> <<"h", "2">>,
       Address |-> <<"n", "2">>, ServicePort |-> 8080,
       ServiceTags |-> << <<"p", "-", "/">>, <<"x">>, <<"p", "-", "/">> >>]
B1 == [ServiceName |-> SvcB, ServiceID |-> "b1",
       ServiceAddress |-> <<"h", "3">>,
       Address |-> <<"n", "3">>, ServicePort |-> 80,
       ServiceTags |-> << <<"p", "-", "/">> >>]
B2 == [ServiceName |-> SvcB, ServiceID |-> "b2",
       ServiceAddress |-> <<"h", ".", "4">>,
       Address |-> <<"n", "4">>, ServicePort |-> 9,
       ServiceTags |-> << <<"p", "-", " ", "$", "D", "C", ".", "x", "/", "y", " ">>,
                          <<"p", "-", "$", "X", "X", "/">>,
                          <<"p", "-", "x">> >>]

Instances == {A1, A2, B1, B2}

\* Replies of Catalog().Service(name, "", q): an error, or instances.
ServiceReplies(name) ==
    { [err |-> TRUE, svcs |-> <<>>] } \cup
    { [err |-> FALSE, svcs |-> l] :
        l \in IF name = SvcA THEN { <<A1>>, <<A1, A2>> }
              ELSE IF name = SvcB THEN { <<B1>>, <<B2, B1>> }
              ELSE { <<>> } }

\* The datacenter lists Catalog().Datacenters() may return.
DatacentersReplies == { <<datacenters[dcIndex]>>, <<datacenters[1], OtherDC>> }

\* What the catalog answers to the calls of one serviceConfig: to
\* Datacenters() an error or a list dcs and, for the k-th datacenter of the
\* list, svc[k] to Service().
CatalogReplies(name) ==
    { [err |-> TRUE, dcs |-> <<>>, svc |-> <<>>] } \cup
    UNION { { [err |-> FALSE, dcs |-> ds, svc |-> f] :
                f \in [1..Len(ds) -> ServiceReplies(name)] } :
            ds \in DatacentersReplies }

\* The characters of a variable name.
IsNameChar(c) ==
    \/ Ord("0") <= Ord(c) /\ Ord(c) <= Ord("9")
    \/ Ord("A") <= Ord(c) /\ Ord(c) <= Ord("Z")
    \/ Ord("a") <= Ord(c) /\ Ord(c) <= Ord("z")
    \/ c = "_"

\* The text with every $NAME replaced by its binding; not ok if a $NAME has
\* no binding.
RECURSIVE Expand(_, _)
Expand(s, env) ==
    IF Len(s) = 0 THEN [ok |-> TRUE, s |-> <<>>]
    ELSE IF s[1] # "$"
    THEN LET rest == Expand(Tail(s), env)
         IN  [ok |-> rest.ok, s |-> <<s[1]>> \o rest.s]
    ELSE LET t == Tail(s)
             stop == {i \in 1..Len(t) : ~IsNameChar(t[i])}
             n == IF stop = {} THEN Len(t)
                  ELSE (CHOOSE i \in stop : \A j \in stop : i <= j) - 1
             name == SubSeq(t, 1, n)
             rest == Expand(SubSeq(t, n + 1, Len(t)), env)
         IN  IF name \in DOMAIN env
             THEN [ok |-> rest.ok, s |-> env[name] \o rest.s]
             ELSE [ok |-> FALSE, s |-> <<>>]

\* parseURLPrefixTag(tag, prefix, env): host and path of a prefix tag.
parseURLPrefixTag(tag, prefix, env) ==
    IF ~HasPrefix(tag, prefix)
    THEN [ok |-> FALSE]
    ELSE LET e == Expand(SubSeq(tag, Len(prefix) + 1, Len(tag)), env)
         IN  IF ~e.ok \/ ~Contains(e.s, "/")
             THEN [ok |-> FALSE]
             ELSE LET k == CHOOSE i \in 1..Len(e.s) :
                              /\ e.s[i] = "/"
                              /\ \A j \in 1..(i - 1) : e.s[j] # "/"
                  IN  [ok |-> TRUE,
                       host |-> TrimSpace(SubSeq(e.s, 1, k - 1)),
                       path |-> TrimSpace(SubSeq(e.s, k, Len(e.s)))]

\* passingServices(checks, status): the records of the instances all of whose
\* records have a status of the allow-list.
passingServices(checks, allow) ==
    SelectSeq(checks,
              LAMBDA c : \A j \in 1..Len(checks) :
                  (checks[j].ServiceName = c.ServiceName
                      /\ checks[j].ServiceID = c.ServiceID)
                    => checks[j].Status \in allow)

\* The address of the route without the node address for an empty service
\* address.
routeAddrServiceOnly(svc, os) ==
    LET addr == svc.ServiceAddress
    IN  IF os = "darwin" /\ ~Contains(addr, ".")
            /\ ~HasSuffix(addr, <<".", "l", "o", "c", "a", "l">>)
        THEN addr \o <<".", "l", "o", "c", "a", "l">>
        ELSE addr

\* The address of the route: the service address, else the node address,
\* with ".local" added on darwin for a name without a dot.
routeAddr(svc, os) ==
    LET addr == IF svc.ServiceAddress = <<>> THEN svc.Address
                ELSE svc.ServiceAddress
    IN  IF os = "darwin" /\ ~Contains(addr, ".")
            /\ ~HasSuffix(addr, <<".", "l", "o", "c", "a", "l">>)
        THEN addr \o <<".", "l", "o", "c", "a", "l">>
        ELSE addr

\* fmt.Sprintf("route add %s %s%s http://%s:%d/ tags %q", name, host, path,
\*             addr, port, strings.Join(svc.ServiceTags, ","))
routeLine(svc, host, path, os) ==
    <<"r", "o", "u", "t", "e", " ", "a", "d", "d", " ">>
        \o svc.ServiceName \o <<" ">> \o host \o path
        \o <<" ", "h", "t", "t", "p", ":", "/", "/">> \o routeAddr(svc, os)
        \o <<":">> \o Itoa(svc.ServicePort)
        \o <<"/", " ", "t", "a", "g", "s", " ">>
        \o Quote(Join(svc.ServiceTags, <<",">>))

\* The inner loop of serviceConfig over the tags of one instance, from tag k
\* on: one line per tag that parses.  Every line is kept with the instance,
\* datacenter and tag it comes from.
RECURSIVE tagLines(_, _, _, _, _)
tagLines(svc, dc, prefix, k, os) ==
    IF k > Len(svc.ServiceTags) THEN <<>>
    ELSE LET p == parseURLPrefixTag(svc.ServiceTags[k], prefix,
                                    [n \in {<<"D", "C">>} |-> dc])
         IN  (IF p.ok
              THEN << [line |-> routeLine(svc, p.host, p.path, os),
                       name |-> svc.ServiceName, id |-> svc.ServiceID,
                       dc |-> dc, tag |-> k] >>
              ELSE <<>>)
             \o tagLines(svc, dc, prefix, k + 1, os)

\* The lines of every instance and datacenter on every system, computed once.
TagLines ==
    [os \in GOOSes |->
        [svc \in Instances,
         dc \in {datacenters[i] : i \in 1..Len(datacenters)} \cup {OtherDC} |->
            tagLines(svc, dc, tagPrefix, 1, os)]]

\* The loop over the instances without the test of the passing set.
RECURSIVE svcLinesAll(_, _, _, _)
svcLinesAll(svcs, dc, passing, k) ==
    IF k > Len(svcs) THEN <<>>
    ELSE TagLines[goos][svcs[k], dc] \o svcLinesAll(svcs, dc, passing, k + 1)

\* The loop of serviceConfig over the instances of one datacenter, from
\* instance k on: the instances that are not in the passing set are skipped.
RECURSIVE svcLines(_, _, _, _)
svcLines(svcs, dc, passing, k) ==
    IF k > Len(svcs) THEN <<>>
    ELSE (IF svcs[k].ServiceID \notin passing
          THEN <<>>
          ELSE TagLines[goos][svcs[k], dc])
         \o svcLines(svcs, dc, passing, k + 1)

\* The loop over the datacenters with an error of Catalog().Service
\* returning the lines collected so far.
RECURSIVE dcLinesPartial(_, _, _, _)
dcLinesPartial(cat, passing, k, config) ==
    IF k > Len(cat.dcs) THEN config
    ELSE IF cat.svc[k].err THEN config
    ELSE dcLinesPartial(cat, passing, k + 1,
            config \o svcLines(cat.svc[k].svcs, cat.dcs[k], passing, 1))

\* The loop of serviceConfig over the datacenters, from datacenter k on, with
\* the lines collected so far: an error of Catalog().Service returns nil.
RECURSIVE dcLines(_, _, _, _)
dcLines(cat, passing, k, config) ==
    IF k > Len(cat.dcs) THEN config
    ELSE IF cat.svc[k].err THEN <<>>
    ELSE dcLines(cat, passing, k + 1,
                 config \o svcLines(cat.svc[k].svcs, cat.dcs[k], passing, 1))

\* serviceConfig(client, name, passing, tagPrefix), the catalog answering cat.
serviceConfig(cat, name, passing) ==
    IF name = <<>> \/ passing = {} THEN <<>>
    ELSE IF cat.err THEN <<>>
    ELSE dcLines(cat, passing, 1, <<>>)

\* The map m of servicesConfig: service name to the IDs of its records.
passingMap(checks) ==
    [name \in {checks[i].ServiceName : i \in 1..Len(checks)} |->
        {checks[i].ServiceID :
            i \in {j \in 1..Len(checks) : checks[j].ServiceName = name}}]

\* The lines left in the order they were collected in.
unsorted(config) == config

\* One line put into lines that are sorted from the least to the greatest.
insertForward(sorted, x) ==
    LET n == Cardinality({i \in 1..Len(sorted) :
                            ~StrLess(x.line, sorted[i].line)})
    IN  SubSeq(sorted, 1, n) \o <<x>> \o SubSeq(sorted, n + 1, Len(sorted))

RECURSIVE sortIntoForward(_, _)
sortIntoForward(sorted, rest) ==
    IF Len(rest) = 0 THEN sorted
    ELSE sortIntoForward(insertForward(sorted, rest[1]), Tail(rest))

\* sort.Sort(sort.StringSlice(config)): sort.Reverse left out.
sortForward(config) == sortIntoForward(<<>>, config)

\* One line put into lines that are sorted from the greatest to the least:
\* it goes behind the lines that are not less than it.
insertReverse(sorted, x) ==
    LET n == Cardinality({i \in 1..Len(sorted) :
                            ~StrLess(sorted[i].line, x.line)})
    IN  SubSeq(sorted, 1, n) \o <<x>> \o SubSeq(sorted, n + 1, Len(sorted))

RECURSIVE sortInto(_, _)
sortInto(sorted, rest) ==
    IF Len(rest) = 0 THEN sorted
    ELSE sortInto(insertReverse(sorted, rest[1]), Tail(rest))

\* sort.Sort(sort.Reverse(sort.StringSlice(config))): the lines from the
\* greatest to the least.
sortReverse(config) == sortInto(<<>>, config)

\* The loop of servicesConfig over the names of m.
RECURSIVE allLines(_, _, _)
allLines(m, cats, names) ==
    IF names = {} THEN <<>>
    ELSE LET name == CHOOSE n \in names : TRUE
         IN  serviceConfig(cats[name], name, m[name])
                \o allLines(m, cats, names \ {name})

\* servicesConfig(client, checks, tagPrefix), the catalog answering cats: the
\* sorted lines, and with them the map m they were built from.
servicesConfig(checks, cats) ==
    LET m == passingMap(checks)
    IN  [config |-> sortReverse(allLines(m, cats, DOMAIN m)), m |-> m]

\* servicesConfig(client, all_checks, tagPrefix): the records not filtered.
buildConfigUnfiltered(all, cats) == servicesConfig(all, cats)

\* servicesConfig(client, passingServices(all_checks, status), tagPrefix)
buildConfig(all, cats) == servicesConfig(passingServices(all, status), cats)

\* The first index from i on that the loop over datacenters does not skip.
nextDC(i) == IF i = dcIndex THEN i + 1 ELSE i

\* The loop over datacenters goes on at index i, or ends.
afterDC(v, i) ==
    IF nextDC(i) > Len(datacenters)
    THEN [v EXCEPT !.pc = "build", !.i = nextDC(i)]
    ELSE [v EXCEPT !.pc = "remote", !.i = nextDC(i)]

\* The local read failed, and the continue is left out.
localErrorNoContinue(v) == afterDC(v, 1)

\* The local read failed: log, sleep, continue.
localError(v) == [v EXCEPT !.pc = "local", !.all_checks = <<>>]

\* The local read succeeded, and meta.LastIndex is not recorded.
localOKKeepIndex(v, checks, meta) ==
    afterDC([v EXCEPT !.all_checks = checks], 1)

\* The local read succeeded: its records are collected and meta.LastIndex is
\* recorded.
localOK(v, checks, meta) ==
    afterDC([v EXCEPT !.all_checks = checks, !.lastIndex = meta], 1)

\* A remote read failed, and watchServices returns.
remoteErrorReturn(v) == [v EXCEPT !.pc = "return"]

\* A remote read failed, and the continue restarts the outer loop.
remoteErrorRestart(v) == [v EXCEPT !.pc = "local", !.all_checks = <<>>]

\* A remote read failed: log, sleep, continue with the next datacenter.
remoteError(v) == afterDC(v, v.i + 1)

\* A remote read succeeded: its records are appended and its meta is dropped.
remoteOK(v, checks, meta) ==
    afterDC([v EXCEPT !.all_checks = v.all_checks \o checks], v.i + 1)

\* q of the local read: &api.QueryOptions{RequireConsistent: true,
\* WaitIndex: lastIndex, Datacenter: datacenters[dcIndex]}
localQuery(v) ==
    [RequireConsistent |-> TRUE, WaitIndex |-> v.lastIndex,
     Datacenter |-> datacenters[dcIndex]]

\* q of a remote read with the WaitIndex of the local read.
remoteQueryWait(v) ==
    [RequireConsistent |-> TRUE, WaitIndex |-> v.lastIndex,
     Datacenter |-> datacenters[v.i]]

\* q of a remote read: &api.QueryOptions{RequireConsistent: true,
\* Datacenter: dc}; WaitIndex has its zero value.
remoteQuery(v) ==
    [RequireConsistent |-> TRUE, WaitIndex |-> 0,
     Datacenter |-> datacenters[v.i]]

\* One read of the health state as hist keeps it.
ReadOf(q, err, checks, meta) ==
    [q |-> q, err |-> err, checks |-> checks, meta |-> meta]

\* LastIndex of the reply to a read with WaitIndex wait.
LastIndexReplies(wait) == wait..MaxIndex

NoCatalog == [err |-> TRUE, dcs |-> <<>>, svc |-> <<>>]

\* checks, meta, err := client.Health().State("any", q) for the local
\* datacenter, with WaitIndex: lastIndex.
LocalRead ==
    /\ w.pc = "local"
    /\ nSent < MaxSent
    /\ lastWait' = localQuery(w).WaitIndex
    /\ \/ /\ fails < MaxFails
          /\ fails' = fails + 1
          /\ failWait' = IF fails = 0 THEN localQuery(w).WaitIndex
                         ELSE failWait
          /\ w' = localError(w)
          /\ UNCHANGED hist
       \/ /\ \E checks \in HealthReplies,
                meta \in LastIndexReplies(localQuery(w).WaitIndex) :
                /\ w' = localOK(w, checks, meta)
                /\ hist' = [nOK |-> hist.nOK + 1,
                            reads |-> <<ReadOf(localQuery(w), FALSE,
                                               checks, meta)>>]
          /\ fails' = 0
          /\ failWait' = 0
    /\ UNCHANGED <<doc, passingSets, catalog, nSent, goos>>
    /\ UNCHANGED proxyVars
    /\ UNCHANGED cfgVars

\* checks, _, err := client.Health().State("any", q) for datacenters[i].
RemoteRead ==
    /\ w.pc = "remote"
    /\ \/ /\ w' = remoteError(w)
          /\ hist' = [hist EXCEPT !.reads =
                        Append(@, ReadOf(remoteQuery(w), TRUE, <<>>, 0))]
       \/ \E checks \in RemoteReplies, meta \in 0..MaxIndex :
             /\ w' = remoteOK(w, checks, meta)
             /\ hist' = [hist EXCEPT !.reads =
                           Append(@, ReadOf(remoteQuery(w), FALSE, checks, 0))]
    /\ UNCHANGED <<doc, passingSets, catalog, nSent, lastWait, fails, failWait,
                   goos>>
    /\ UNCHANGED proxyVars
    /\ UNCHANGED cfgVars

\* The names of the map m that servicesConfig builds from the records: the
\* names it calls serviceConfig for.
AskedNames(all) ==
    DOMAIN buildConfig(all, [n \in {SvcA, SvcB, <<>>} |-> NoCatalog]).m

\* What the catalog answers for the service name: it is asked only for the
\* names of the map m.
AskedReplies(name, all) ==
    IF name \in AskedNames(all) THEN CatalogReplies(name) ELSE {NoCatalog}

\* servicesConfig(...) is evaluated, with all its catalog calls: catalog keeps
\* the answers to the calls for the names serviceConfig asks the catalog for.
Build ==
    /\ w.pc = "build"
    /\ \E ca \in AskedReplies(SvcA, w.all_checks),
          cb \in AskedReplies(SvcB, w.all_checks) :
          LET cats == [n \in {SvcA, SvcB, <<>>} |->
                         IF n = SvcA THEN ca
                         ELSE IF n = SvcB THEN cb ELSE NoCatalog]
              b == buildConfig(w.all_checks, cats)
          IN  /\ catalog' = [n \in AskedNames(w.all_checks) \ {<<>>} |-> cats[n]]
              /\ doc' = b.config
              /\ passingSets' = b.m
    /\ w' = [w EXCEPT !.pc = "send"]
    /\ UNCHANGED <<nSent, lastWait, fails, failWait, goos, hist>>
    /\ UNCHANGED proxyVars
    /\ UNCHANGED cfgVars

\* config <- document: the consumer receives it and the loop starts again.
Send ==
    /\ w.pc = "send"
    /\ nSent' = nSent + 1
    /\ w' = [w EXCEPT !.pc = "local", !.all_checks = <<>>]
    /\ doc' = <<>>
    /\ passingSets' = <<>>
    /\ catalog' = <<>>
    /\ hist' = [hist EXCEPT !.reads = <<>>]
    /\ UNCHANGED <<lastWait, fails, failWait, goos>>
    /\ UNCHANGED proxyVars
    /\ UNCHANGED cfgVars

(***************************************************************************)
(* The -cfg argument parser: parseCfg, as TestParseCfg calls it.           *)
(***************************************************************************)

\* The rows of the table of TestParseCfg: the arguments, the index, and the
\* path and error the test expects.
TestParseCfgCases ==
    << [args |-> <<>>, i |-> 0,
         path |-> <<>>, err |-> "nil"],
       [args |-> <<<<"-", "a", "b", "c">>>>, i |-> 0,
         path |-> <<>>, err |-> "nil"],
       [args |-> <<<<"-", "c", "f", "g">>>>, i |-> 1,
         path |-> <<>>, err |-> "nil"],
       [args |-> <<<<"-", "c", "f", "g">>>>, i |-> 5,
         path |-> <<>>, err |-> "nil"],
       [args |-> <<<<"-", "c", "f", "g">>>>, i |-> 0,
         path |-> <<>>, err |-> "errInvalidConfig"],
       [args |-> <<<<"-", "c", "f", "g", "=", "'", "'">>>>, i |-> 0,
         path |-> <<>>, err |-> "errInvalidConfig"],
       [args |-> <<<<"-", "c", "f", "g", "=", "\"", "\"">>>>, i |-> 0,
         path |-> <<>>, err |-> "errInvalidConfig"],
       [args |-> <<<<"-", "c", "f", "g", "=">>>>, i |-> 0,
         path |-> <<>>, err |-> "errInvalidConfig"],
       [args |-> <<<<"-", "c", "f", "g">>, <<"f", "o", "o">>>>, i |-> 0,
         path |-> <<"f", "o", "o">>, err |-> "nil"],
       [args |-> <<<<"-", "c", "f", "g", "=", "f", "o", "o">>>>, i |-> 0,
         path |-> <<"f", "o", "o">>, err |-> "nil"],
       [args |-> <<<<"-", "c", "f", "g", "=", "'", "f", "o", "o", "'">>>>, i |-> 0,
         path |-> <<"f", "o", "o">>, err |-> "nil"],
       [args |-> <<<<"-", "c", "f", "g", "=", "\"", "f", "o", "o", "\"">>>>, i |-> 0,
         path |-> <<"f", "o", "o">>, err |-> "nil"],
       [args |-> <<<<"-", "c", "f", "g", "=", "'", "\"", "f", "o", "o", "\"", "'">>>>, i |-> 0,
         path |-> <<"\"", "f", "o", "o", "\"">>, err |-> "nil"],
       [args |-> <<<<"-", "c", "f", "g", "=", "\"", "'", "f", "o", "o", "'", "\"">>>>, i |-> 0,
         path |-> <<"'", "f", "o", "o", "'">>, err |-> "nil"] >>

Cfg == <<"-", "c", "f", "g">>
CfgEq == <<"-", "c", "f", "g", "=">>

\* A value with its quotes kept.
keepQuotes(v) == v

\* A value without one layer of quotes around it, if it has one.
unquote(v) ==
    IF Len(v) >= 2 /\ v[1] = v[Len(v)] /\ v[1] \in {"'", "\""}
    THEN SubSeq(v, 2, Len(v) - 1)
    ELSE v

\* The path of a value: an empty value, or empty quotes, are invalid.
cfgPath(v) ==
    IF Len(v) = 0 \/ Len(unquote(v)) = 0
    THEN [path |-> <<>>, err |-> "errInvalidConfig"]
    ELSE [path |-> unquote(v), err |-> "nil"]

\* parseCfg(args, i), i counting from 0: the path of the first -cfg argument
\* at or after index i.
RECURSIVE parseCfg(_, _)
parseCfg(args, i) ==
    IF i >= Len(args) THEN [path |-> <<>>, err |-> "nil"]
    ELSE IF args[i + 1] = Cfg
    THEN IF i + 1 >= Len(args)
         THEN [path |-> <<>>, err |-> "errInvalidConfig"]
         ELSE cfgPath(args[i + 2])
    ELSE IF HasPrefix(args[i + 1], CfgEq)
    THEN cfgPath(SubSeq(args[i + 1], Len(CfgEq) + 1, Len(args[i + 1])))
    ELSE parseCfg(args, i + 1)

\* The arguments parseCfg is called with: those of the test and some more.
CfgTokens ==
    UNION { {TestParseCfgCases[r].args[k] :
                k \in 1..Len(TestParseCfgCases[r].args)} :
            r \in 1..Len(TestParseCfgCases) }
    \cup { <<"'", "f", "o", "o", "'">>,
      <<"\"", "\"">>,
      <<>>,
      <<"-", "-", "c", "f", "g">>,
      <<"-", "c", "f", "g", "=", "'", "'", "f", "o", "o", "'", "'">> }

RECURSIVE ArgLists(_)
ArgLists(n) ==
    IF n = 0 THEN { <<>> }
    ELSE ArgLists(n - 1) \cup
         { Append(l, t) : l \in { x \in ArgLists(n - 1) : Len(x) = n - 1 },
                          t \in CfgTokens }

CfgIndexes ==
    0..(MaxArgs + 1) \cup
    {TestParseCfgCases[r].i : r \in 1..Len(TestParseCfgCases)}

NoCall == [args |-> <<>>, i |-> 0]
NoResult == [path |-> <<>>, err |-> "none"]

\* p, err := parseCfg(tt.args, tt.i)
RunParseCfg ==
    /\ cfgPc = "call"
    /\ cfgOut' = parseCfg(cfgIn.args, cfgIn.i)
    /\ cfgPc' = "done"
    /\ UNCHANGED cfgIn
    /\ UNCHANGED proxyVars
    /\ UNCHANGED watchVars

CfgIdle ==
    /\ cfgIn = NoCall
    /\ cfgOut = NoResult
    /\ cfgPc = "idle"

CfgInit ==
    /\ cfgIn \in [args : ArgLists(MaxArgs), i : CfgIndexes]
    /\ cfgOut = NoResult
    /\ cfgPc = "call"

WatchInit ==
    /\ w = [pc |-> "local", lastIndex |-> 0, all_checks |-> <<>>, i |-> 0]
    /\ doc = <<>>
    /\ passingSets = <<>>
    /\ catalog = <<>>
    /\ nSent = 0
    /\ lastWait = 0
    /\ fails = 0
    /\ failWait = 0
    /\ goos \in GOOSes
    /\ hist = [nOK |-> 0, reads |-> <<>>]

ProxyInit ==
    /\ shuttingDown = FALSE
    /\ table = T0
    /\ req = [r \in Req |-> Idle]
    /\ requests = 0
    /\ timers = [t \in Targets |-> 0]

Init == ProxyInit /\ WatchInit /\ CfgIdle

WatchNext ==
    \/ LocalRead
    \/ RemoteRead
    \/ Build
    \/ Send

WatchSpec == Init /\ [][WatchNext]_vars

\* The watcher with its goroutine scheduled, the discovery system answering
\* every call, the local read failing at most MaxFails times in a row, and
\* the consumer receiving from the config channel.  The step that builds
\* the document is the only one at its place and always leaves it, so its
\* weak fairness is stated as the watcher not staying there.
WatchLive ==
    /\ Init
    /\ [][WatchNext]_vars
    /\ WF_vars(LocalRead)
    /\ WF_vars(RemoteRead)
    /\ []<>(w.pc # "build")
    /\ WF_vars(Send)

TestInit == ProxyInit /\ WatchInit /\ CfgInit

CfgSpec == TestInit /\ [][RunParseCfg]_vars

Next ==
    \/ \E r \in Req : ServeHTTP(r)
    \/ \E r \in Req : TargetStep(r)
    \/ \E r \in Req : HandlerReturn(r)
    \/ Replace
    \/ Shutdown

Spec == Init /\ [][Next]_vars

(***************************************************************************)
(* Properties of the dispatcher.                                           *)
(***************************************************************************)

\* C1: a request that ServeHTTP receives while the shutdown gate reads as set
\* is answered 503 with the body "shutting down", and for it there is no
\* lookup, no header injection, no handler and no timer update.
C1_ShutdownReply ==
    /\ \A r \in Req :
          req[r].gate =>
            /\ req[r].pc = "done"
            /\ req[r].status = 503
            /\ req[r].body = "shutting down"
            /\ req[r].lookups = 0
            /\ req[r].t = NoTarget
            /\ req[r].xff = <<>>
            /\ req[r].h = NoHandler
            /\ req[r].upd = <<>>
    /\ requests = Cardinality({r \in Req : req[r].upd # <<>>})

\* C1 witness: a request was received after the gate was set, while another
\* request that came before the gate was set is still with its handler.
C1_Witness ==
    \E r, o \in Req :
        /\ req[r].gate /\ req[r].pc = "done"
        /\ req[o].pc = "handler"

\* C2: a request received while the gate is not set and whose lookup returns
\* no target is answered with the configured NoRouteStatus and an empty body,
\* without a handler, whatever its headers and remote address.
C2_NoRouteReply ==
    \A r \in Req :
        (~req[r].gate /\ req[r].pc = "done" /\ req[r].t = NoTarget) =>
            /\ req[r].status = ProxyCfg.NoRouteStatus
            /\ req[r].body = ""
            /\ req[r].h = NoHandler
            /\ req[r].upd = <<>>

\* C2 witness: a websocket request with an unparsable remote address got the
\* no-route reply.
C2_Witness ==
    \E r \in Req :
        /\ ~req[r].gate /\ req[r].pc = "done" /\ req[r].t = NoTarget
        /\ req[r].lookups = 1
        /\ ~req[r].remoteOK /\ req[r].upgrade = Websocket
        /\ req[r].status = 929

\* C3: a request that resolved to a target and passed the header injection
\* has the raw-upgrade handler if Upgrade is "websocket", else the HTTP handler
\* with the configured FlushInterval if Accept is "text/event-stream", else
\* the HTTP handler with flush interval 0.
C3_HandlerPrecedence ==
    \A r \in Req :
        (req[r].t # NoTarget /\ req[r].remoteOK
            /\ req[r].pc \in {"handler", "done"}) =>
            /\ req[r].upgrade = "websocket" =>
                 req[r].h = [kind |-> "raw", url |-> req[r].t.URL]
            /\ (req[r].upgrade # "websocket"
                    /\ req[r].accept = "text/event-stream") =>
                 req[r].h = [kind |-> "http", url |-> req[r].t.URL,
                             flush |-> ProxyCfg.FlushInterval]
            /\ (req[r].upgrade # "websocket"
                    /\ req[r].accept # "text/event-stream") =>
                 req[r].h = [kind |-> "http", url |-> req[r].t.URL,
                             flush |-> 0]

\* C3 witness: a request with both Upgrade: websocket and Accept:
\* text/event-stream is with the raw handler, and a request with Upgrade: h2c
\* and the same Accept is with the flushing HTTP handler.
C3_Witness ==
    \E r, o \in Req :
        /\ req[r].upgrade = "websocket" /\ req[r].accept = "text/event-stream"
        /\ req[r].h.kind = "raw"
        /\ req[o].upgrade = "h2c" /\ req[o].accept = "text/event-stream"
        /\ req[o].h = [kind |-> "http", url |-> req[o].t.URL, flush |-> 15]

\* C9: whenever a lookup ends, its result is the result of looking the request
\* up in one of the tables that were installed while the lookup ran, however
\* replacements of the table interleave with it.
C9_LookupOneTable ==
    [][\A r \in Req :
          (req[r].pc = "lookup" /\ req'[r].pc # "lookup") =>
              \E T \in req[r].seen : req'[r].t = Lookup(T, req[r])]_vars

\* C9 witness: the table was replaced while a lookup was past its first entry,
\* and the old and the new table give the request different targets.
C9_Witness ==
    \E r \in Req :
        /\ req[r].pc = "lookup" /\ req[r].idx = 2
        /\ table # req[r].tbl
        /\ table \in req[r].seen
        /\ Lookup(table, req[r]) # Lookup(req[r].tbl, req[r])

\* The requests whose handler has returned.
Served == {r \in Req : req[r].pc = "done" /\ req[r].h # NoHandler}

\* C15: a request whose remote address cannot be parsed never reaches a
\* handler and updates no timer; when its lookup returned a target it is
\* answered 500, and when its lookup returned no target it is answered with
\* NoRouteStatus.
C15_HeaderFailure ==
    \A r \in Req :
        (~req[r].remoteOK /\ ~req[r].gate) =>
            /\ req[r].pc # "handler"
            /\ req[r].h = NoHandler
            /\ req[r].upd = <<>>
            /\ req[r].pc = "done" =>
                  /\ req[r].lookups = 1
                  /\ req[r].t # NoTarget => req[r].status = 500
                  /\ req[r].t = NoTarget =>
                        req[r].status = ProxyCfg.NoRouteStatus

\* C15 witness: of two requests with a remote address that cannot be parsed
\* one resolved to a target and was answered 500, the other resolved to no
\* target and was answered 929.
C15_Witness ==
    \E r, o \in Req :
        /\ ~req[r].remoteOK /\ req[r].t # NoTarget /\ req[r].status = 500
        /\ ~req[o].remoteOK /\ req[o].t = NoTarget /\ req[o].lookups = 1
        /\ req[o].status = 929

\* C16: a request whose handler has returned has updated the requests timer
\* and the timer of the target its one lookup returned, each once and both
\* since the start read before the handler was called; a request answered
\* 503, NoRouteStatus or 500, or still with its handler, has updated none;
\* so each timer was updated once per such request.
C16_TimersOncePerRequest ==
    /\ \A r \in Served :
          /\ req[r].lookups = 1 /\ req[r].t # NoTarget
          /\ req[r].upd = <<Upd("requests", "handler call"),
                            Upd(req[r].t.URL, "handler call")>>
    /\ \A r \in Req \ Served :
          /\ req[r].upd = <<>>
          /\ req[r].pc = "done" =>
                req[r].status \in {503, ProxyCfg.NoRouteStatus, 500}
    /\ requests = Cardinality(Served)
    /\ \A t \in Targets :
          timers[t] = Cardinality({r \in Served : req[r].t = t})

\* C16 witness: two requests were served by the same target, which the table
\* installed by now no longer gives them, and its timer was updated twice.
C16_Witness ==
    \E r, o \in Served :
        /\ r # o /\ req[r].t = req[o].t
        /\ timers[req[r].t] = 2 /\ requests = 2
        /\ Lookup(table, req[r]) # req[r].t

(***************************************************************************)
(* Properties of the watcher.  The document of an iteration is the value   *)
(* of doc while the watcher is at its send.                                *)
(***************************************************************************)
AtSend == w.pc = "send"

\* The lines of the document that begin with the text p.
LinesWith(p) == {i \in 1..Len(doc) : HasPrefix(doc[i].line, p)}

LineAFoo ==
    <<"r", "o", "u", "t", "e", " ", "a", "d", "d", " ", "a", " ",
      "/", "f", "o", "o", " ">>
LineARoot ==
    <<"r", "o", "u", "t", "e", " ", "a", "d", "d", " ", "a", " ", "/", " ">>
LineBRoot ==
    <<"r", "o", "u", "t", "e", " ", "a", "d", "d", " ", "b", " ", "/", " ">>

\* The records of the instance (name, id) among all_checks.
ChecksOf(name, id) ==
    {i \in 1..Len(w.all_checks) :
        /\ w.all_checks[i].ServiceName = name
        /\ w.all_checks[i].ServiceID = id}

\* The instances the catalog returned for the document, each with the
\* datacenter it was returned for.
Returned ==
    {<<n, k, j>> \in (DOMAIN catalog) \X (1..Len(datacenters))
                        \X (1..Cardinality(Instances)) :
        /\ ~catalog[n].err
        /\ k <= Len(catalog[n].dcs)
        /\ ~catalog[n].svc[k].err
        /\ j <= Len(catalog[n].svc[k].svcs)}

\* C4 as stated: the lines of every document sent are sorted in reverse
\* lexicographic order and no line occurs twice, that is every line is
\* greater than all lines after it.
C4_SortedNoDuplicates ==
    AtSend =>
        \A i, j \in 1..Len(doc) :
            i < j => StrLess(doc[j].line, doc[i].line)

\* C4 as amended: the lines of every document sent are in reverse
\* lexicographic order, no line being less than the line after it; equal
\* lines are kept.
C4_SortedReverse ==
    AtSend =>
        \A i \in 1..(Len(doc) - 1) : ~StrLess(doc[i].line, doc[i + 1].line)

\* C4 witness: a document with different lines, with a line that occurs twice
\* for the two equal tags of one instance in one datacenter, and with a line
\* that occurs for the same instance and tag in two datacenters.
C4_Witness ==
    /\ AtSend
    /\ \E i, j \in 1..Len(doc) : StrLess(doc[j].line, doc[i].line)
    /\ \E i, j \in 1..Len(doc) :
          /\ i # j /\ doc[i].line = doc[j].line
          /\ doc[i].id = doc[j].id /\ doc[i].dc = doc[j].dc
          /\ doc[i].tag # doc[j].tag
    /\ \E i, j \in 1..Len(doc) :
          /\ doc[i].line = doc[j].line
          /\ doc[i].id = doc[j].id /\ doc[i].dc # doc[j].dc
          /\ doc[i].tag = doc[j].tag

C6_OnlyPassing ==
    AtSend =>
        \A i \in 1..Len(doc) :
            /\ doc[i].name \in DOMAIN passingSets
            /\ doc[i].id \in passingSets[doc[i].name]

\* C6 witness: the catalog returned an instance with a prefix tag whose ID is
\* not in the passing set of its service, next to one that is, and the
\* document has lines.
C6_Witness ==
    /\ AtSend
    /\ Len(doc) > 0
    /\ \E x \in Returned :
          LET svc == catalog[x[1]].svc[x[2]].svcs[x[3]]
          IN  /\ x[1] \in DOMAIN passingSets
              /\ svc.ServiceID \notin passingSets[x[1]]
              /\ TagLines[goos][svc, catalog[x[1]].dcs[x[2]]] # <<>>
              /\ \E i \in 1..Len(doc) : doc[i].name = x[1]

\* C7: an instance with records among all_checks is in the passing set used
\* for the document exactly if all its records have a status of the
\* allow-list, and every line of the document is for such an instance.
C7_AllMustPass ==
    AtSend =>
        /\ \A c \in 1..Len(w.all_checks) :
              LET name == w.all_checks[c].ServiceName
                  id == w.all_checks[c].ServiceID
              IN  (name \in DOMAIN passingSets /\ id \in passingSets[name])
                    <=> \A i \in ChecksOf(name, id) :
                            w.all_checks[i].Status \in {"passing"}
        /\ \A l \in 1..Len(doc) :
              /\ ChecksOf(doc[l].name, doc[l].id) # {}
              /\ \A i \in ChecksOf(doc[l].name, doc[l].id) :
                    w.all_checks[i].Status \in {"passing"}

\* C7 witness: a1 has the records passing and passing, a2 the records passing
\* and warning, the catalog returned both, and the document has the lines of
\* a1 and no line of a2.
C7_Witness ==
    /\ AtSend
    /\ {w.all_checks[i].Status : i \in ChecksOf(SvcA, "a1")} = {"passing"}
    /\ Cardinality(ChecksOf(SvcA, "a1")) = 2
    /\ {w.all_checks[i].Status : i \in ChecksOf(SvcA, "a2")}
          = {"passing", "warning"}
    /\ \E x \in Returned : catalog[x[1]].svc[x[2]].svcs[x[3]] = A2
    /\ {doc[i].id : i \in 1..Len(doc)} = {"a1"}

\* C8: a local read that fails leaves the watcher at its local read, with
\* lastIndex as it was and nothing sent or built (remote reads and catalog
\* reads are made only past the local read); and each read made after a
\* failed one has the WaitIndex of the first of the failed reads.
C8_FailedLocalRead ==
    [][/\ fails' > fails =>
            /\ w'.pc = "local"
            /\ w'.lastIndex = w.lastIndex
            /\ w'.all_checks = <<>>
            /\ nSent' = nSent
            /\ UNCHANGED <<doc, passingSets, catalog>>
       /\ (w.pc = "local" /\ fails > 0) => lastWait' = failWait]_vars

\* C8 witness: after a document was sent and lastIndex is 1, two local reads
\* in a row have failed, both made with WaitIndex 1.
C8_Witness ==
    /\ fails = 2 /\ failWait = 1 /\ lastWait = 1
    /\ nSent = 1 /\ w.pc = "local" /\ w.lastIndex = 1

\* The reads of this iteration: the local read first, then the remote reads.
Reads == hist.reads

PastLocal == w.pc \in {"remote", "build", "send"}

\* C11: lastIndex is 0 until the first successful local read, no step makes
\* it less, a successful local read makes it the meta.LastIndex of that read
\* and no other step changes it.
C11_LastIndexMonotonic ==
    [][/\ w'.lastIndex >= w.lastIndex
       /\ hist.nOK = 0 => w.lastIndex = 0
       /\ hist'.nOK > hist.nOK => w'.lastIndex = hist'.reads[1].meta
       /\ hist'.nOK = hist.nOK => w'.lastIndex = w.lastIndex]_vars

\* C11 witness: after a failed read, the second successful local read, made
\* with WaitIndex 1, returned LastIndex 2, and lastIndex is 2.
C11_Witness ==
    /\ hist.nOK = 2 /\ w.pc = "remote"
    /\ Reads[1].q.WaitIndex = 1 /\ Reads[1].meta = 2
    /\ w.lastIndex = 2

\* The records of the reads that did not fail, in the order of the reads.
RECURSIVE Aggregate(_)
Aggregate(reads) ==
    IF Len(reads) = 0 THEN <<>>
    ELSE (IF reads[1].err THEN <<>> ELSE reads[1].checks)
            \o Aggregate(Tail(reads))

\* C12: when a local read is issued every successful local read before it
\* was followed by one send, and past a successful local read one send is
\* still to come, whichever remote reads fail; the records the document is
\* built from are those of the local read and of the remote reads that did
\* not fail.
C12_OneSendPerRead ==
    /\ w.pc = "local" => hist.nOK = nSent /\ Reads = <<>>
    /\ PastLocal => hist.nOK = nSent + 1 /\ ~Reads[1].err
    /\ w.pc \in {"build", "send"} =>
          /\ Len(Reads) = Len(datacenters)
          /\ w.all_checks = Aggregate(Reads)

\* C12 witness: in the second iteration the first remote read failed and the
\* second did not, and the document built from the records of the local
\* read and of the second remote read is being sent.
C12_Witness ==
    /\ AtSend /\ nSent = 1
    /\ Reads[2].err /\ ~Reads[3].err
    /\ Reads[1].checks # <<>>
    /\ w.all_checks = Reads[1].checks \o Reads[3].checks
    /\ Len(doc) > 0

\* C18: the reads of an iteration begin with a local read that did not fail;
\* the reads after it go to datacenters other than datacenters[dcIndex], to
\* each at most once and, when the reads are done, to each once; they have
\* WaitIndex 0; and lastIndex stays the LastIndex of the local read.
C18_RemoteReads ==
    /\ Reads # <<>> =>
          /\ Reads[1].q.Datacenter = datacenters[dcIndex]
          /\ ~Reads[1].err
          /\ PastLocal
          /\ w.lastIndex = Reads[1].meta
    /\ \A k \in 2..Len(Reads) :
          /\ Reads[k].q.WaitIndex = 0
          /\ Reads[k].q.Datacenter # datacenters[dcIndex]
          /\ \A j \in 2..Len(Reads) :
                Reads[j].q.Datacenter = Reads[k].q.Datacenter => j = k
    /\ w.pc \in {"build", "send"} =>
          {Reads[k].q.Datacenter : k \in 2..Len(Reads)}
            = {datacenters[i] : i \in 1..Len(datacenters)}
                \ {datacenters[dcIndex]}

\* C18 witness: the local read was made with WaitIndex 1 and returned
\* LastIndex 2; one remote read failed, the other did not, and lastIndex is 2.
C18_Witness ==
    /\ w.pc = "build"
    /\ Reads[1].q.WaitIndex = 1 /\ w.lastIndex = 2
    /\ ~Reads[2].err /\ Reads[3].err

\* A catalog call made for the service name failed.
Failed(n) ==
    \/ catalog[n].err
    \/ \E k \in 1..Len(catalog[n].dcs) : catalog[n].svc[k].err

\* The lines of the document for the service name.
DocOf(n) == {i \in 1..Len(doc) : doc[i].name = n}

\* The tag of an instance, read in a datacenter.
TagOf(svc, t, dc) ==
    parseURLPrefixTag(svc.ServiceTags[t], tagPrefix,
                      [v \in {<<"D", "C">>} |-> dc])

\* The datacenters k, instances j of the passing set and tags t of them that
\* parse as prefix tags, among what the catalog returned for the name.
Qualifying(n) ==
    UNION { UNION { { <<k, j, t>> :
                        t \in { u \in 1..Len(catalog[n].svc[k].svcs[j].ServiceTags) :
                                  /\ catalog[n].svc[k].svcs[j].ServiceID
                                        \in passingSets[n]
                                  /\ TagOf(catalog[n].svc[k].svcs[j], u,
                                           catalog[n].dcs[k]).ok } } :
                    j \in 1..Len(catalog[n].svc[k].svcs) } :
            k \in 1..Len(catalog[n].dcs) }

\* The lines of the document for one datacenter, instance and tag.
LinesFor(n, x) ==
    {i \in DocOf(n) :
        /\ doc[i].dc = catalog[n].dcs[x[1]]
        /\ doc[i].id = catalog[n].svc[x[1]].svcs[x[2]].ServiceID
        /\ doc[i].tag = x[3]}

\* C14: a service for which a catalog call failed, the list of datacenters
\* or the instances of any datacenter, has no line in the document; a
\* service for which none failed has the lines of all its datacenters,
\* whatever happened to the calls for other services.
C14_AllOrNothing ==
    AtSend =>
        /\ \A i \in 1..Len(doc) : doc[i].name \in DOMAIN catalog
        /\ \A n \in DOMAIN catalog :
              IF Failed(n) THEN DocOf(n) = {}
              ELSE \A x \in Qualifying(n) : LinesFor(n, x) # {}

\* C14 witness: for service a the first datacenter returned a passing
\* instance with prefix tags and the call for the second datacenter failed;
\* the document has no line of a and has the lines of b.
C14_Witness ==
    /\ AtSend
    /\ SvcA \in DOMAIN catalog /\ SvcB \in DOMAIN catalog
    /\ ~catalog[SvcA].err /\ Len(catalog[SvcA].dcs) = 2
    /\ ~catalog[SvcA].svc[1].err /\ catalog[SvcA].svc[2].err
    /\ catalog[SvcA].svc[1].svcs[1].ServiceID \in passingSets[SvcA]
    /\ ~Failed(SvcB)
    /\ DocOf(SvcA) = {} /\ DocOf(SvcB) # {}

\* The service address, or the node address when the service address is
\* empty.
PlainAddr(svc) ==
    IF svc.ServiceAddress = <<>> THEN svc.Address ELSE svc.ServiceAddress

\* That address as the running build writes it.
BuildAddr(svc) ==
    IF goos = "darwin" /\ ~Contains(PlainAddr(svc), ".")
    THEN PlainAddr(svc) \o <<".", "l", "o", "c", "a", "l">>
    ELSE PlainAddr(svc)

\* The beginning of the route line of an instance for host and path p and
\* the address addr.
LineHead(svc, p, addr) ==
    <<"r", "o", "u", "t", "e", " ", "a", "d", "d", " ">>
        \o svc.ServiceName \o <<" ">> \o p.host \o p.path
        \o <<" ", "h", "t", "t", "p", ":", "/", "/">> \o addr
        \o <<":">> \o Itoa(svc.ServicePort)
        \o <<"/", " ", "t", "a", "g", "s", " ">>

\* The document has one line for each datacenter, passing instance and
\* parsing tag of the service and no other line for it.
OneLineEach(n) ==
    /\ Cardinality(DocOf(n)) = Cardinality(Qualifying(n))
    /\ \A x \in Qualifying(n) : Cardinality(LinesFor(n, x)) = 1

\* C17 as stated: for a service all of whose catalog calls succeeded the
\* document has one line per datacenter, passing instance and parsing tag,
\* and no other; the address of the line is the service address, or the
\* node address when the service address is empty.
C17_OneLinePlainAddr ==
    AtSend =>
        \A n \in DOMAIN catalog :
            ~Failed(n) =>
                /\ OneLineEach(n)
                /\ \A x \in Qualifying(n) : \A i \in LinesFor(n, x) :
                      LET svc == catalog[n].svc[x[1]].svcs[x[2]]
                      IN  HasPrefix(doc[i].line,
                                    LineHead(svc, TagOf(svc, x[3], doc[i].dc),
                                             PlainAddr(svc)))

\* C17 as amended: the same, the address being the service address, or the
\* node address when the service address is empty, with ".local" added to
\* an address without a dot when runtime.GOOS is darwin.
C17_OneLineBuildAddr ==
    AtSend =>
        \A n \in DOMAIN catalog :
            ~Failed(n) =>
                /\ OneLineEach(n)
                /\ \A x \in Qualifying(n) : \A i \in LinesFor(n, x) :
                      LET svc == catalog[n].svc[x[1]].svcs[x[2]]
                      IN  HasPrefix(doc[i].line,
                                    LineHead(svc, TagOf(svc, x[3], doc[i].dc),
                                             BuildAddr(svc)))

\* C17 witness: on darwin and with all catalog calls succeeding, the
\* document has lines of a1, whose service address is empty, in two
\* datacenters, and lines of b2, one of whose three tags parses.
C17_Witness ==
    /\ AtSend /\ goos = "darwin"
    /\ SvcA \in DOMAIN catalog /\ SvcB \in DOMAIN catalog
    /\ ~Failed(SvcA) /\ ~Failed(SvcB)
    /\ \E i, j \in DocOf(SvcA) :
          doc[i].id = "a1" /\ doc[j].id = "a1" /\ doc[i].dc # doc[j].dc
    /\ Cardinality({i \in DocOf(SvcB) : doc[i].id = "b2"}) = 1

\* C19 as stated: every line of a document sent is for an instance and a
\* datacenter such that a read of this iteration that did not fail went to
\* that datacenter and returned a record of that instance with a status of
\* the allow-list.
C19_HealthFromSameDC ==
    AtSend =>
        \A i \in 1..Len(doc) :
            \E k \in 1..Len(Reads) :
                /\ ~Reads[k].err
                /\ Reads[k].q.Datacenter = doc[i].dc
                /\ \E c \in 1..Len(Reads[k].checks) :
                      /\ Reads[k].checks[c].ServiceName = doc[i].name
                      /\ Reads[k].checks[c].ServiceID = doc[i].id
                      /\ Reads[k].checks[c].Status \in status

\* C13: with local reads that succeed in the end and a consumer that keeps
\* receiving, every document up to the MaxSent-th is sent in the end,
\* whatever errors the local read, the remote reads, the list of
\* datacenters and the catalog reads return on the way.
C13_EventuallyPublishes ==
    \A k \in 0..(MaxSent - 1) : (nSent = k) ~> (nSent = k + 1)

\* C13 witness: after a document was sent, both remote reads failed, the list
\* of datacenters failed for one service and a catalog read for the other,
\* and the document of this iteration is being sent.
C13_Witness ==
    /\ AtSend /\ nSent = 1
    /\ Reads[2].err /\ Reads[3].err
    /\ \E n, m \in DOMAIN catalog :
          /\ catalog[n].err
          /\ ~catalog[m].err /\ Failed(m)


(***************************************************************************)
(* The -cfg argument parser.                                               *)
(***************************************************************************)

IsCfgArg(a) == a = Cfg \/ HasPrefix(a, CfgEq)

\* The places of the -cfg arguments at or after index i (counted from 0).
CfgArgsFrom(args, i) == { k \in (i + 1)..Len(args) : IsCfgArg(args[k]) }

IsQuoted(v) == Len(v) >= 2 /\ v[1] = v[Len(v)] /\ v[1] \in {"'", "\""}

CfgCalled(r) ==
    /\ cfgPc = "done"
    /\ cfgIn = [args |-> TestParseCfgCases[r].args, i |-> TestParseCfgCases[r].i]

====
